---- MODULE Spec2Model ----
(***************************************************************************)
(* Model of pkg/proxy/router.go: the slot table of the proxy, its two      *)
(* reference-counted connection pools, slot reconfiguration (FillSlot,     *)
(* SwitchMasters, Close) and the dispatch entry points.                    *)
(*                                                                         *)
(* A connection is identified by the pool it lives in and its address; a   *)
(* nil *sharedBackendConn is the empty address "".                         *)
(***************************************************************************)
EXTENDS Integers, Sequences, FiniteSets, TLC

\* ------------------------------------------------------------------ bounds
MaxSlotNum == 2
NumKeys == 2
NumClients == 1
NumWriters == 2

\* ------------------------------------------------------------- value sets
SlotIds == 0 .. (MaxSlotNum - 1)
Addrs == {"a", "b"}
NoAddr == ""
Keys == 0 .. (NumKeys - 1)
Clients == 1 .. NumClients

ErrNone == "nil"
ErrClosedRouter == "use of closed router"
ErrInvalidSlotId == "use of invalid slot id"
ErrSlotIsNotReady == "slot is not ready"

\* models.Slot: the descriptor handed to FillSlot and returned by snapshot
Desc(id, baddr, bgid, maddr, mgid, groups, locked) ==
    [Id |-> id, BackendAddr |-> baddr, BackendAddrGroupId |-> bgid,
     MigrateFrom |-> maddr, MigrateFromGroupId |-> mgid,
     ReplicaGroups |-> groups, Locked |-> locked]

\* &models.Slot{Id: i}
EmptyDesc(id) == Desc(id, NoAddr, 0, NoAddr, 0, << >>, FALSE)

\* ------------------------------------------------------------------ inputs
\* descriptors the cluster layer may send for slot id: empty, active,
\* migrating, a migration source without a backend, and a locked slot with
\* replica groups, one of them empty
DescriptorsFor(id) ==
    { EmptyDesc(id),
      Desc(id, "a", 1, NoAddr, 0, << >>, FALSE),
      Desc(id, "a", 1, "b", 2, << >>, FALSE),
      Desc(id, NoAddr, 2, "b", 2, << >>, FALSE),
      Desc(id, "a", 1, NoAddr, 2, << << >>, <<"a">>, <<"a", "b">> >>, TRUE) }

\* descriptors whose slot id is out of range
InvalidDescriptors ==
    { Desc(-1, "a", 1, NoAddr, 0, << >>, FALSE),
      Desc(MaxSlotNum, "a", 1, "b", 2, << >>, FALSE) }

Descriptors == UNION { DescriptorsFor(id) : id \in SlotIds } \cup InvalidDescriptors

\* group id -> master address; "" is a key absent from the Go map
MasterMap(a0, a1, a2) == [g \in 0 .. 2 |-> IF g = 0 THEN a0 ELSE IF g = 1 THEN a1 ELSE a2]

\* a failover of groups 1 and 2, and a mapping with an entry for group 0
MasterMaps ==
    { MasterMap(NoAddr, "b", "a"),
      MasterMap("a", NoAddr, NoAddr) }

\* the inputs of the step-by-step specification: the descriptors that name a
\* backend or nothing at all, and the failover mapping
ConcDescriptors == { m \in Descriptors : m.BackendAddr # NoAddr \/ m.MigrateFrom = NoAddr }

ConcMasterMaps == { MasterMap(NoAddr, "b", "a") }

\* Request.Multi reduced to its routing keys
Requests == { <<k>> : k \in Keys } \cup { <<k1, k2>> : k1 \in Keys, k2 \in Keys }

\* ------------------------------------------------------------------- state
VARIABLES
    slots,      \* Router.slots
    primary,    \* Router.pool.primary: address -> reference count
    replica,    \* Router.pool.replica: address -> reference count
    closed,     \* Router.closed
    last,       \* the most recent call, its arguments and its outcome
    mu,         \* Router.mu: [w: writer holds it, r: number of readers]
    wf,         \* frames of the goroutines inside FillSlot/SwitchMasters/Close
    cf          \* frame of each client goroutine inside a dispatch call

vars == <<slots, primary, replica, closed, last, mu, wf, cf>>

\* --------------------------------------------------------- connection pool
\* sharedBackendConnPool.Retain
Retain(pool, addr) == [pool EXCEPT ![addr] = @ + 1]

\* sharedBackendConn.Release; nil-safe, and a no-op at zero
Release(pool, addr) ==
    IF addr = NoAddr \/ pool[addr] = 0 THEN pool ELSE [pool EXCEPT ![addr] = @ - 1]

\* sharedBackendConnPool.Get: the pooled connection, or nil
Get(pool, addr) == IF addr \in Addrs /\ pool[addr] > 0 THEN addr ELSE NoAddr

RECURSIVE RetainAll(_, _)
RetainAll(pool, as) ==
    IF as = << >> THEN pool ELSE RetainAll(Retain(pool, Head(as)), Tail(as))

RECURSIVE ReleaseAll(_, _)
ReleaseAll(pool, as) ==
    IF as = << >> THEN pool ELSE ReleaseAll(Release(pool, Head(as)), Tail(as))

RECURSIVE Flatten(_)
Flatten(groups) ==
    IF groups = << >> THEN << >> ELSE Head(groups) \o Flatten(Tail(groups))

\* number of entries of sequence as equal to a
RECURSIVE Count(_, _)
Count(as, a) ==
    IF as = << >> THEN 0 ELSE (IF Head(as) = a THEN 1 ELSE 0) + Count(Tail(as), a)

\* -------------------------------------------------------------------- Slot
EmptySlot ==
    [backend |-> [bc |-> NoAddr, id |-> 0],
     migrate |-> [bc |-> NoAddr, id |-> 0],
     replicaGroups |-> << >>,
     switched |-> FALSE,
     hold |-> FALSE,
     refs |-> 0]

\* Slot.snapshot(full)
snapshot(slot, id, full) ==
    Desc(id, slot.backend.bc, slot.backend.id, slot.migrate.bc, slot.migrate.id,
         IF full THEN slot.replicaGroups ELSE << >>, slot.hold)

\* Slot.blockAndWait, the gate half; the wait half is the guard refs = 0
blockAndWait(slot) == [slot EXCEPT !.hold = TRUE]

\* Slot.unblock
unblock(slot) == [slot EXCEPT !.hold = FALSE]

\* ------------------------------------------------------------- Router state
\* the part of the Router that fillSlot reads and writes
RS == [slots |-> slots, primary |-> primary, replica |-> replica]

\* ---------------------------------------------------------------- fillSlot
\* fillSlot without the gate: what line 173 would do if the slot were not blocked
fillSlotBlock_noGate(rs, id) == rs

\* fillSlot that closes the gate of every slot
fillSlotBlock_allSlots(rs, id) ==
    [rs EXCEPT !.slots = [i \in SlotIds |-> blockAndWait(rs.slots[i])]]

\* fillSlot, line 173: close the gate of the slot
fillSlotBlock(rs, id) ==
    [rs EXCEPT !.slots[id] = blockAndWait(@)]

\* fillSlot going on while admitted requests are still being routed
fillSlotDrained_noWait(slot) == TRUE

\* a wait in blockAndWait that also waits for the gate to be free, which
\* blockAndWait itself holds
fillSlotDrained_waitGate(slot) == slot.refs = 0 /\ ~slot.hold

\* fillSlot, line 173: blockAndWait returns once no admitted request is left
fillSlotDrained(slot) == slot.refs = 0

\* fillSlot forgetting line 178: the migration source is cleared, not released
fillSlotRelease_leakMigrate(rs, id, switched) ==
    LET slot == rs.slots[id] IN
    [slots |-> [rs.slots EXCEPT ![id] =
                   [@ EXCEPT !.backend = [bc |-> NoAddr, id |-> 0],
                             !.migrate = [bc |-> NoAddr, id |-> 0],
                             !.replicaGroups = << >>,
                             !.switched = switched]],
     primary |-> Release(rs.primary, slot.backend.bc),
     replica |-> ReleaseAll(rs.replica, Flatten(slot.replicaGroups))]

\* fillSlot that keeps the switched flag the slot had
fillSlotRelease_keepSwitched(rs, id, switched) ==
    LET slot == rs.slots[id] IN
    [slots |-> [rs.slots EXCEPT ![id] =
                   [@ EXCEPT !.backend = [bc |-> NoAddr, id |-> 0],
                             !.migrate = [bc |-> NoAddr, id |-> 0],
                             !.replicaGroups = << >>]],
     primary |-> Release(Release(rs.primary, slot.backend.bc), slot.migrate.bc),
     replica |-> ReleaseAll(rs.replica, Flatten(slot.replicaGroups))]

\* fillSlot, lines 175-188: release what the slot holds and clear it
fillSlotRelease(rs, id, switched) ==
    LET slot == rs.slots[id] IN
    [slots |-> [rs.slots EXCEPT ![id] =
                   [@ EXCEPT !.backend = [bc |-> NoAddr, id |-> 0],
                             !.migrate = [bc |-> NoAddr, id |-> 0],
                             !.replicaGroups = << >>,
                             !.switched = switched]],
     primary |-> Release(Release(rs.primary, slot.backend.bc), slot.migrate.bc),
     replica |-> ReleaseAll(rs.replica, Flatten(slot.replicaGroups))]

\* fillSlot, lines 198-207: the groups kept are the non-empty ones
NonEmptyGroups(groups) == SelectSeq(groups, LAMBDA g : Len(g) # 0)

\* fillSlot forgetting line 192: the backend is retained, its group id not stored
fillSlotRetainBackend_noId(rs, m) ==
    IF m.BackendAddr # NoAddr
    THEN [rs EXCEPT !.slots[m.Id].backend = [bc |-> m.BackendAddr, id |-> 0],
                    !.primary = Retain(@, m.BackendAddr)]
    ELSE rs

\* fillSlot, lines 190-193: retain the backend the descriptor names
fillSlotRetainBackend(rs, m) ==
    IF m.BackendAddr # NoAddr
    THEN [rs EXCEPT !.slots[m.Id].backend =
                        [bc |-> m.BackendAddr, id |-> m.BackendAddrGroupId],
                    !.primary = Retain(@, m.BackendAddr)]
    ELSE rs

\* fillSlot, lines 194-197: retain the migration source the descriptor names
fillSlotRetainMigrate(rs, m) ==
    IF m.MigrateFrom # NoAddr
    THEN [rs EXCEPT !.slots[m.Id].migrate =
                        [bc |-> m.MigrateFrom, id |-> m.MigrateFromGroupId],
                    !.primary = Retain(@, m.MigrateFrom)]
    ELSE rs

\* fillSlot, lines 198-207: retain the replicas the descriptor names
fillSlotRetainReplicas(rs, m) ==
    [rs EXCEPT !.slots[m.Id].replicaGroups = @ \o NonEmptyGroups(m.ReplicaGroups),
               !.replica = RetainAll(@, Flatten(m.ReplicaGroups))]

\* fillSlot, lines 194-207
fillSlotRetainRest(rs, m) == fillSlotRetainReplicas(fillSlotRetainMigrate(rs, m), m)

\* fillSlot that opens the gate whatever the descriptor says
fillSlotUnblock_always(rs, m) ==
    [rs EXCEPT !.slots[m.Id] = unblock(@)]

\* fillSlot, lines 209-211
fillSlotUnblock(rs, m) ==
    IF ~m.Locked THEN [rs EXCEPT !.slots[m.Id] = unblock(@)] ELSE rs

\* fillSlot as a whole, with no request in flight on the slot
fillSlot(rs, m, switched) ==
    fillSlotUnblock(
        fillSlotRetainRest(
            fillSlotRetainBackend(
                fillSlotRelease(fillSlotBlock(rs, m.Id), m.Id, switched), m), m), m)

\* ---------------------------------------------------------------- FillSlot
\* FillSlot without the check of lines 116-118
FillSlotErr_noClosedCheck(isClosed, m) ==
    IF m.Id < 0 \/ m.Id >= MaxSlotNum THEN ErrInvalidSlotId ELSE ErrNone

\* FillSlot, lines 116-121: the error returned before anything is applied
FillSlotErr(isClosed, m) ==
    IF isClosed THEN ErrClosedRouter
    ELSE IF m.Id < 0 \/ m.Id >= MaxSlotNum THEN ErrInvalidSlotId
    ELSE ErrNone

\* FillSlot applying the descriptor before it looks at closed
FillSlotRS_applyWhenClosed(rs, isClosed, m) ==
    IF m.Id < 0 \/ m.Id >= MaxSlotNum THEN rs ELSE fillSlot(rs, m, FALSE)

\* FillSlot, lines 113-124
FillSlotRS(rs, isClosed, m) ==
    IF FillSlotErr(isClosed, m) = ErrNone THEN fillSlot(rs, m, FALSE) ELSE rs

\* ----------------------------------------------------------- SwitchMasters
\* trySwitchMaster that looks the migrate source up under the backend's group
trySwitchMasterDesc_sameGroup(slot, id, masters) ==
    LET m == snapshot(slot, id, FALSE)
        addr == masters[m.BackendAddrGroupId]
        from == masters[m.BackendAddrGroupId]
        m1 == IF addr # NoAddr /\ addr # m.BackendAddr
              THEN [m EXCEPT !.BackendAddr = addr] ELSE m
    IN  IF from # NoAddr /\ from # m1.MigrateFrom
        THEN [m1 EXCEPT !.MigrateFrom = from] ELSE m1

\* trySwitchMaster that takes the backend address from the map even when the
\* map has no entry for the group
trySwitchMasterDesc_clearOnMissing(slot, id, masters) ==
    LET m == snapshot(slot, id, FALSE)
        addr == masters[m.BackendAddrGroupId]
        from == masters[m.MigrateFromGroupId]
        m1 == IF addr # m.BackendAddr
              THEN [m EXCEPT !.BackendAddr = addr] ELSE m
    IN  IF from # NoAddr /\ from # m1.MigrateFrom
        THEN [m1 EXCEPT !.MigrateFrom = from] ELSE m1

\* trySwitchMaster that re-applies a snapshot taken with the replica groups
trySwitchMasterDesc_withReplicas(slot, id, masters) ==
    LET m == snapshot(slot, id, TRUE)
        addr == masters[m.BackendAddrGroupId]
        from == masters[m.MigrateFromGroupId]
        m1 == IF addr # NoAddr /\ addr # m.BackendAddr
              THEN [m EXCEPT !.BackendAddr = addr] ELSE m
    IN  IF from # NoAddr /\ from # m1.MigrateFrom
        THEN [m1 EXCEPT !.MigrateFrom = from] ELSE m1

\* trySwitchMaster, lines 237-250: the descriptor to re-apply
trySwitchMasterDesc(slot, id, masters) ==
    LET m == snapshot(slot, id, FALSE)
        addr == masters[m.BackendAddrGroupId]
        from == masters[m.MigrateFromGroupId]
        m1 == IF addr # NoAddr /\ addr # m.BackendAddr
              THEN [m EXCEPT !.BackendAddr = addr] ELSE m
    IN  IF from # NoAddr /\ from # m1.MigrateFrom
        THEN [m1 EXCEPT !.MigrateFrom = from] ELSE m1

\* trySwitchMaster without the comparisons of lines 240 and 246
trySwitchMasterUpdate_noCompare(slot, id, masters) ==
    \/ masters[slot.backend.id] # NoAddr
    \/ masters[slot.migrate.id] # NoAddr

\* trySwitchMaster, lines 236-253: the update flag
trySwitchMasterUpdate(slot, id, masters) ==
    trySwitchMasterDesc(slot, id, masters) # snapshot(slot, id, FALSE)

\* trySwitchMaster, lines 235-257
trySwitchMaster(rs, id, masters) ==
    IF trySwitchMasterUpdate(rs.slots[id], id, masters)
    THEN fillSlot(rs, trySwitchMasterDesc(rs.slots[id], id, masters), TRUE)
    ELSE rs

\* SwitchMasters, lines 229-231: the loop from slot i on
RECURSIVE SwitchMastersFrom(_, _, _)
SwitchMastersFrom(rs, i, masters) ==
    IF i >= MaxSlotNum THEN rs
    ELSE SwitchMastersFrom(trySwitchMaster(rs, i, masters), i + 1, masters)

\* the slots the loop of SwitchMasters re-applies, from slot i on
RECURSIVE SwitchedFrom(_, _, _)
SwitchedFrom(rs, i, masters) ==
    IF i >= MaxSlotNum THEN {}
    ELSE (IF trySwitchMasterUpdate(rs.slots[i], i, masters) THEN {i} ELSE {})
         \cup SwitchedFrom(trySwitchMaster(rs, i, masters), i + 1, masters)

\* SwitchMasters, lines 226-228
SwitchMastersErr(isClosed) == IF isClosed THEN ErrClosedRouter ELSE ErrNone

\* SwitchMasters, lines 223-233
SwitchMastersRS(rs, isClosed, masters) ==
    IF SwitchMastersErr(isClosed) = ErrNone THEN SwitchMastersFrom(rs, 0, masters) ELSE rs

\* ------------------------------------------------------------------- Close
\* Close, lines 57-59: the loop from slot i on
RECURSIVE CloseFrom(_, _)
CloseFrom(rs, i) ==
    IF i >= MaxSlotNum THEN rs ELSE CloseFrom(fillSlot(rs, EmptyDesc(i), FALSE), i + 1)

\* Close with its loop starting at slot 1
CloseRS_skipFirst(rs, isClosed) == IF isClosed THEN rs ELSE CloseFrom(rs, 1)

\* Close, lines 49-60
CloseRS(rs, isClosed) == IF isClosed THEN rs ELSE CloseFrom(rs, 0)

\* ---------------------------------------------------------- read accessors
\* GetSlot, lines 87-95; the nil result is the descriptor with Id -1
GetSlot(id) ==
    IF id < 0 \/ id >= MaxSlotNum THEN EmptyDesc(-1) ELSE snapshot(slots[id], id, TRUE)

\* GetSlots, lines 77-85
GetSlots == [i \in SlotIds |-> snapshot(slots[i], i, TRUE)]

\* HasSwitched, lines 97-106
HasSwitchedIn(ss) == \E i \in SlotIds : ss[i].switched

HasSwitched == HasSwitchedIn(slots)

\* GetGroupIds, lines 62-75
GetGroupIds ==
    { slots[i].backend.id : i \in { j \in SlotIds : slots[j].backend.id # 0 } }
    \cup { slots[i].migrate.id : i \in { j \in SlotIds : slots[j].migrate.id # 0 } }

\* ---------------------------------------------------------------- dispatch
\* getHashKey: the single routing key a request resolves to
getHashKey(multi) == Head(multi)

\* Hash: a fixed hash of the key
Hash(hkey) == hkey * 5 + 1

\* the hash key dispatchSlot passes to forward (nil)
NoKey == -1

\* dispatch taking the key itself for its hash
dispatchId_noHash(multi) == getHashKey(multi) % MaxSlotNum

\* dispatch, lines 142-144: the slot a request is routed to
dispatchId(multi) == Hash(getHashKey(multi)) % MaxSlotNum

\* Slot.forward, admission: the gate is held or no backend is assigned
forwardErr(slot) ==
    IF slot.hold \/ slot.backend.bc = NoAddr THEN ErrSlotIsNotReady ELSE ErrNone

\* a connection of a pool
Conn(pool, addr) == [pool |-> pool, addr |-> addr]

\* Slot.forward as a whole: the error, and the connections the request went to
forward(slot, hkey) ==
    [err |-> forwardErr(slot),
     pushed |-> IF forwardErr(slot) = ErrNone
                THEN << Conn("primary", slot.backend.bc) >> ELSE << >>]

\* dispatch, lines 141-146: the slots forward is called on, and its outcome
dispatch(ss, multi) ==
    [fwd |-> << dispatchId(multi) >>,
     err |-> forward(ss[dispatchId(multi)], getHashKey(multi)).err,
     pushed |-> forward(ss[dispatchId(multi)], getHashKey(multi)).pushed]

\* dispatchSlot indexing the slot table one off
dispatchSlot_offByOne(ss, id) ==
    IF id < 0 \/ id >= MaxSlotNum
    THEN [fwd |-> << >>, err |-> ErrInvalidSlotId, pushed |-> << >>]
    ELSE [fwd |-> << (id + 1) % MaxSlotNum >>,
          err |-> forward(ss[(id + 1) % MaxSlotNum], NoKey).err,
          pushed |-> forward(ss[(id + 1) % MaxSlotNum], NoKey).pushed]

\* dispatchSlot, lines 148-154
dispatchSlot(ss, id) ==
    IF id < 0 \/ id >= MaxSlotNum
    THEN [fwd |-> << >>, err |-> ErrInvalidSlotId, pushed |-> << >>]
    ELSE [fwd |-> << id >>,
          err |-> forward(ss[id], NoKey).err,
          pushed |-> forward(ss[id], NoKey).pushed]

\* dispatchAddr, lines 160-168: the connection chosen; upP and upR say whether
\* BackendConn(seed, false) finds the pooled connection usable
dispatchAddr(pri, rep, addr, upP, upR) ==
    IF Get(pri, addr) # NoAddr /\ upP THEN << Conn("primary", addr) >>
    ELSE IF Get(rep, addr) # NoAddr /\ upR THEN << Conn("replica", addr) >>
    ELSE << >>

\* ------------------------------------------------------------ call records
NoCall ==
    [op |-> "none", m |-> EmptyDesc(0), masters |-> MasterMap(NoAddr, NoAddr, NoAddr),
     req |-> << >>, id |-> -1, addr |-> NoAddr, err |-> ErrNone,
     fwd |-> << >>, pushed |-> << >>, touched |-> {}]

\* a slot that holds a connection or a closed gate
Holding(slot) ==
    \/ slot.backend.bc # NoAddr
    \/ slot.migrate.bc # NoAddr
    \/ slot.replicaGroups # << >>
    \/ slot.hold

\* the frame of a reconfiguration call before its first step; post is the
\* router state the call leaves when it runs alone
IdleWriter == [pc |-> "idle", op |-> "none", m |-> EmptyDesc(0), switched |-> FALSE,
               i |-> 0, masters |-> MasterMap(NoAddr, NoAddr, NoAddr),
               post |-> [slots |-> [i \in SlotIds |-> EmptySlot],
                         primary |-> [a \in Addrs |-> 0],
                         replica |-> [a \in Addrs |-> 0]]]

IdleClient == [pc |-> "idle", slot |-> -1, bc |-> NoAddr, mg |-> NoAddr,
               pool |-> "primary", stale |-> FALSE]

\* -------------------------------------------------------------------- Init
\* NewRouter, lines 30-38
Init ==
    /\ slots = [i \in SlotIds |-> EmptySlot]
    /\ primary = [a \in Addrs |-> 0]
    /\ replica = [a \in Addrs |-> 0]
    /\ closed = FALSE
    /\ last = NoCall
    /\ mu = [w |-> FALSE, r |-> 0]
    /\ wf = {}
    /\ cf = [c \in Clients |-> IdleClient]

Install(rs) ==
    /\ slots' = rs.slots
    /\ primary' = rs.primary
    /\ replica' = rs.replica

\* ------------------------------------------- whole calls, one after another
\* FillSlot(m), lines 113-124
FillSlot(m) ==
    /\ Install(FillSlotRS(RS, closed, m))
    /\ last' = [NoCall EXCEPT !.op = "FillSlot", !.m = m, !.err = FillSlotErr(closed, m)]
    /\ UNCHANGED <<closed, mu, wf, cf>>

\* SwitchMasters(masters), lines 223-233
SwitchMasters(masters) ==
    /\ Install(SwitchMastersRS(RS, closed, masters))
    /\ last' = [NoCall EXCEPT !.op = "SwitchMasters", !.masters = masters,
                              !.err = SwitchMastersErr(closed),
                              !.touched = IF SwitchMastersErr(closed) = ErrNone
                                          THEN SwitchedFrom(RS, 0, masters) ELSE {}]
    /\ UNCHANGED <<closed, mu, wf, cf>>

\* Close(), lines 49-60
Close ==
    /\ Install(CloseRS(RS, closed))
    /\ closed' = TRUE
    /\ last' = [NoCall EXCEPT !.op = "Close",
                              !.touched = IF closed THEN {}
                                          ELSE { i \in SlotIds : Holding(slots[i]) }]
    /\ UNCHANGED <<mu, wf, cf>>

\* dispatch(r), lines 141-146
Dispatch(multi) ==
    /\ last' = [NoCall EXCEPT !.op = "dispatch", !.req = multi,
                              !.err = dispatch(slots, multi).err,
                              !.fwd = dispatch(slots, multi).fwd,
                              !.pushed = dispatch(slots, multi).pushed]
    /\ UNCHANGED <<slots, primary, replica, closed, mu, wf, cf>>

\* dispatchSlot(r, id), lines 148-154
DispatchSlot(id) ==
    /\ last' = [NoCall EXCEPT !.op = "dispatchSlot", !.id = id,
                              !.err = dispatchSlot(slots, id).err,
                              !.fwd = dispatchSlot(slots, id).fwd,
                              !.pushed = dispatchSlot(slots, id).pushed]
    /\ UNCHANGED <<slots, primary, replica, closed, mu, wf, cf>>

Next ==
    \/ \E m \in Descriptors : FillSlot(m)
    \/ \E masters \in MasterMaps : SwitchMasters(masters)
    \/ Close
    \/ \E multi \in Requests : Dispatch(multi)
    \/ \E id \in SlotIds \cup {-1, MaxSlotNum} : DispatchSlot(id)

Spec == Init /\ [][Next]_vars

\* --------------------------------------------- concurrent calls, step by step
\* a Lock that is granted whoever holds the lock
MuFree_noLock == TRUE

\* Router.mu.Lock is granted while nobody holds the lock
MuFree == ~mu.w /\ mu.r = 0

\* the connections of pool p whose last reference the step from before to
\* after drops: the pool closes them
Closes(before, after) == { a \in Addrs : before[a] > 0 /\ after[a] = 0 }

\* a client frame holding connection (p, a), which the pool has just closed
MarkStale(f, p, closing) ==
    IF f.pc \in {"push", "addr"} /\ f.pool = p /\ f.bc \in closing
    THEN [f EXCEPT !.stale = TRUE] ELSE f

\* a router state without the in-flight counters of its slots
Settled(rs) == [rs EXCEPT !.slots = [i \in SlotIds |-> [rs.slots[i] EXCEPT !.refs = 0]]]

\* a goroutine may enter a reconfiguration call
MayCall == Cardinality(wf) < NumWriters /\ MuFree

\* the frame f of a reconfiguration goes on as g
Goes(f, g) == wf' = (wf \ {f}) \cup {g}

\* the reconfiguration of frame f returns
Returns(f) == wf' = wf \ {f}

\* the frame of FillSlot(m) once it holds the lock and has passed its checks
FillSlotFrame(m) ==
    [IdleWriter EXCEPT !.pc = "block", !.op = "FillSlot", !.m = m,
                       !.post = Settled(FillSlotRS(RS, closed, m))]

\* the frame of SwitchMasters(masters) once it holds the lock, at the head of its loop
SwitchMastersFrame(masters) ==
    [IdleWriter EXCEPT !.pc = "loop", !.op = "SwitchMasters", !.masters = masters,
                       !.post = Settled(SwitchMastersRS(RS, closed, masters))]

\* the frame of Close() once it holds the lock, at the head of its loop
CloseFrame ==
    [IdleWriter EXCEPT !.pc = "loop", !.op = "Close", !.post = Settled(CloseRS(RS, closed))]

\* FillSlot(m), lines 113-121
CallFillSlot(m) ==
    /\ MayCall
    /\ IF FillSlotErr(closed, m) = ErrNone
       THEN /\ mu' = [mu EXCEPT !.w = TRUE]
            /\ wf' = wf \cup {FillSlotFrame(m)}
       ELSE UNCHANGED <<mu, wf>>
    /\ UNCHANGED <<slots, primary, replica, closed, last, cf>>

\* SwitchMasters(masters), lines 223-228
CallSwitchMasters(masters) ==
    /\ MayCall
    /\ IF SwitchMastersErr(closed) = ErrNone
       THEN /\ mu' = [mu EXCEPT !.w = TRUE]
            /\ wf' = wf \cup {SwitchMastersFrame(masters)}
       ELSE UNCHANGED <<mu, wf>>
    /\ UNCHANGED <<slots, primary, replica, closed, last, cf>>

\* Close(), lines 49-55
CallClose ==
    /\ MayCall
    /\ IF ~closed
       THEN /\ mu' = [mu EXCEPT !.w = TRUE]
            /\ wf' = wf \cup {CloseFrame}
            /\ closed' = TRUE
       ELSE UNCHANGED <<mu, wf, closed>>
    /\ UNCHANGED <<slots, primary, replica, last, cf>>

\* the head of the loop of SwitchMasters (lines 229-231, 235-256) or of Close
\* (lines 57-59); past the last slot the call returns and unlocks
LoopStep(f) ==
    /\ f.pc = "loop"
    /\ IF f.i >= MaxSlotNum
       THEN /\ Returns(f)
            /\ mu' = [mu EXCEPT !.w = FALSE]
       ELSE /\ mu' = mu
            /\ IF f.op = "Close"
               THEN Goes(f, [f EXCEPT !.pc = "block", !.m = EmptyDesc(f.i),
                                      !.switched = FALSE])
               ELSE IF trySwitchMasterUpdate(slots[f.i], f.i, f.masters)
               THEN Goes(f, [f EXCEPT !.pc = "block",
                                      !.m = trySwitchMasterDesc(slots[f.i], f.i, f.masters),
                                      !.switched = TRUE])
               ELSE Goes(f, [f EXCEPT !.i = @ + 1])
    /\ UNCHANGED <<slots, primary, replica, closed, last, cf>>

\* fillSlot, line 173: blockAndWait closes the gate
BlockStep(f) ==
    /\ f.pc = "block"
    /\ Install(fillSlotBlock(RS, f.m.Id))
    /\ Goes(f, [f EXCEPT !.pc = "release"])
    /\ UNCHANGED <<closed, last, mu, cf>>

\* fillSlot, lines 173-188: blockAndWait returns, the old connections go
ReleaseStep(f) ==
    /\ f.pc = "release"
    /\ fillSlotDrained(slots[f.m.Id])
    /\ LET rs == fillSlotRelease(RS, f.m.Id, f.switched) IN
       /\ Install(rs)
       /\ cf' = [c \in Clients |->
                   MarkStale(MarkStale(cf[c], "primary", Closes(primary, rs.primary)),
                             "replica", Closes(replica, rs.replica))]
    /\ Goes(f, [f EXCEPT !.pc = "retain"])
    /\ UNCHANGED <<closed, last, mu>>

\* fillSlot, lines 190-193
RetainBackendStep(f) ==
    /\ f.pc = "retain"
    /\ Install(fillSlotRetainBackend(RS, f.m))
    /\ Goes(f, [f EXCEPT !.pc = "retainRest"])
    /\ UNCHANGED <<closed, last, mu, cf>>

\* fillSlot, lines 194-207
RetainRestStep(f) ==
    /\ f.pc = "retainRest"
    /\ Install(fillSlotRetainRest(RS, f.m))
    /\ Goes(f, [f EXCEPT !.pc = "unblock"])
    /\ UNCHANGED <<closed, last, mu, cf>>

\* fillSlot, lines 209-211, and the return to the caller: FillSlot unlocks,
\* the loops of SwitchMasters and Close go on to the next slot
UnblockStep(f) ==
    /\ f.pc = "unblock"
    /\ Install(fillSlotUnblock(RS, f.m))
    /\ IF f.op = "FillSlot"
       THEN /\ Returns(f)
            /\ mu' = [mu EXCEPT !.w = FALSE]
       ELSE /\ Goes(f, [f EXCEPT !.pc = "loop", !.i = @ + 1])
            /\ mu' = mu
    /\ UNCHANGED <<closed, last, cf>>

\* Slot.forward, admission: the request is refused, or counted in
Admit(c, id) ==
    IF forwardErr(slots[id]) = ErrNone
    THEN /\ slots' = [slots EXCEPT ![id].refs = @ + 1]
         /\ cf' = [cf EXCEPT ![c] = [IdleClient EXCEPT !.pc = "push", !.slot = id,
                                                        !.bc = slots[id].backend.bc,
                                                        !.mg = slots[id].migrate.bc]]
    ELSE UNCHANGED <<slots, cf>>

\* dispatch(r), lines 141-146, up to the admission by forward
DispatchAdmit(c, multi) ==
    /\ cf[c].pc = "idle"
    /\ Admit(c, dispatchId(multi))
    /\ UNCHANGED <<primary, replica, closed, last, mu, wf>>

\* dispatchSlot(r, id), lines 148-154, up to the admission by forward
DispatchSlotAdmit(c, id) ==
    /\ cf[c].pc = "idle"
    /\ IF id < 0 \/ id >= MaxSlotNum THEN UNCHANGED <<slots, cf>> ELSE Admit(c, id)
    /\ UNCHANGED <<primary, replica, closed, last, mu, wf>>

\* Slot.forward, the handoff: PushBack on the backend, the request is counted out
PushStep(c) ==
    /\ cf[c].pc = "push"
    /\ slots' = [slots EXCEPT ![cf[c].slot].refs = @ - 1]
    /\ cf' = [cf EXCEPT ![c] = IdleClient]
    /\ UNCHANGED <<primary, replica, closed, last, mu, wf>>

\* dispatchAddr, line 157: RLock is granted while no writer holds the lock
dispatchAddrRLock == ~mu.w

\* dispatchAddr(r, addr), lines 156-164: RLock and the lookup in the pools
DispatchAddrGet(c, addr, upP, upR) ==
    /\ cf[c].pc = "idle"
    /\ dispatchAddrRLock
    /\ LET conn == dispatchAddr(primary, replica, addr, upP, upR) IN
       IF conn # << >>
       THEN /\ mu' = [mu EXCEPT !.r = @ + 1]
            /\ cf' = [cf EXCEPT ![c] = [IdleClient EXCEPT !.pc = "addr", !.bc = addr,
                                                           !.pool = conn[1].pool]]
       ELSE UNCHANGED <<mu, cf>>
    /\ UNCHANGED <<slots, primary, replica, closed, last, wf>>

\* dispatchAddr, lines 161-162 and 165-166: PushBack, then RUnlock
DispatchAddrPush(c) ==
    /\ cf[c].pc = "addr"
    /\ mu' = [mu EXCEPT !.r = @ - 1]
    /\ cf' = [cf EXCEPT ![c] = IdleClient]
    /\ UNCHANGED <<slots, primary, replica, closed, last, wf>>

\* ---------------------------------------------------------- read accessors
Accessors == {"GetSlots", "GetSlot", "HasSwitched", "GetGroupIds"}

\* the side of Router.mu an accessor takes: GetSlots line 78, GetSlot line 88
\* and HasSwitched line 98 call RLock, GetGroupIds line 63 calls Lock
AccessorLock(op) == IF op = "GetGroupIds" THEN "Lock" ELSE "RLock"

\* an accessor is granted its lock and reads the slot table under it
AccessorEnter(c, op) ==
    /\ cf[c].pc = "idle"
    /\ IF AccessorLock(op) = "RLock"
       THEN /\ ~mu.w
            /\ mu' = [mu EXCEPT !.r = @ + 1]
       ELSE /\ MuFree
            /\ mu' = [mu EXCEPT !.w = TRUE]
    /\ cf' = [cf EXCEPT ![c] = [IdleClient EXCEPT !.pc = op]]
    /\ UNCHANGED <<slots, primary, replica, closed, last, wf>>

\* the deferred RUnlock or Unlock of an accessor
AccessorReturn(c) ==
    /\ cf[c].pc \in Accessors
    /\ IF AccessorLock(cf[c].pc) = "RLock"
       THEN mu' = [mu EXCEPT !.r = @ - 1]
       ELSE mu' = [mu EXCEPT !.w = FALSE]
    /\ cf' = [cf EXCEPT ![c] = IdleClient]
    /\ UNCHANGED <<slots, primary, replica, closed, last, wf>>

NextConc ==
    \/ \E m \in ConcDescriptors : CallFillSlot(m)
    \/ \E masters \in ConcMasterMaps : CallSwitchMasters(masters)
    \/ CallClose
    \/ \E f \in wf : LoopStep(f)
    \/ \E f \in wf : BlockStep(f)
    \/ \E f \in wf : ReleaseStep(f)
    \/ \E f \in wf : RetainBackendStep(f)
    \/ \E f \in wf : RetainRestStep(f)
    \/ \E f \in wf : UnblockStep(f)
    \/ \E c \in Clients, multi \in Requests : DispatchAdmit(c, multi)
    \/ \E c \in Clients, id \in SlotIds \cup {-1, MaxSlotNum} : DispatchSlotAdmit(c, id)
    \/ \E c \in Clients : PushStep(c)
    \/ \E c \in Clients, addr \in Addrs, upP \in BOOLEAN, upR \in BOOLEAN :
           DispatchAddrGet(c, addr, upP, upR)
    \/ \E c \in Clients : DispatchAddrPush(c)
    \/ \E c \in Clients, op \in Accessors : AccessorEnter(c, op)
    \/ \E c \in Clients : AccessorReturn(c)

SpecConc == Init /\ [][NextConc]_vars

\* the next step of the reconfiguration of frame f
WriterStep(f) ==
    \/ LoopStep(f)
    \/ BlockStep(f)
    \/ ReleaseStep(f)
    \/ RetainBackendStep(f)
    \/ RetainRestStep(f)
    \/ UnblockStep(f)

\* the step by which an admitted request or an accessor finishes
ClientStep(c) ==
    \/ PushStep(c)
    \/ DispatchAddrPush(c)
    \/ AccessorReturn(c)

\* the scheduler runs every goroutine that can take a step: a reconfiguration
\* holding the write lock runs on, an admitted request is pushed, and a
\* request or accessor holding the lock gives it back
Fairness ==
    /\ WF_vars(\E f \in wf : WriterStep(f))
    /\ \A c \in Clients : WF_vars(ClientStep(c))

SpecFair == SpecConc /\ Fairness

\* ------------------------------------- overlapping reconfigurations, waiting
\* the descriptors and maps of the overlapping calls
SerialDescriptors ==
    { m \in ConcDescriptors : m.Id \in SlotIds /\ (m.BackendAddr = NoAddr \/ m.MigrateFrom # NoAddr) }

\* the frames that have passed Router.mu.Lock
Inside == { f \in wf : f.pc # "lock" }

\* a goroutine calls FillSlot, SwitchMasters or Close and reaches s.mu.Lock()
\* (lines 114, 224, 50) while other calls may be inside or waiting
Invoke(op, m, masters) ==
    /\ Cardinality(wf) < NumWriters
    /\ wf' = wf \cup {[IdleWriter EXCEPT !.pc = "lock", !.op = op, !.m = m, !.masters = masters]}
    /\ UNCHANGED <<slots, primary, replica, closed, last, mu, cf>>

\* s.mu.Lock() is granted to a waiting call, which makes its checks (lines
\* 116-121, 226-228, 52-55) and goes on into its body or returns
LockStep(f) ==
    /\ f.pc = "lock"
    /\ MuFree
    /\ LET err == IF f.op = "FillSlot" THEN FillSlotErr(closed, f.m)
                  ELSE IF f.op = "SwitchMasters" THEN SwitchMastersErr(closed)
                  ELSE IF closed THEN ErrClosedRouter ELSE ErrNone
       IN IF err = ErrNone
          THEN /\ mu' = [mu EXCEPT !.w = TRUE]
               /\ Goes(f, IF f.op = "FillSlot" THEN FillSlotFrame(f.m)
                          ELSE IF f.op = "SwitchMasters" THEN SwitchMastersFrame(f.masters)
                          ELSE CloseFrame)
               /\ closed' = (closed \/ f.op = "Close")
          ELSE /\ Returns(f)
               /\ UNCHANGED <<mu, closed>>
    /\ UNCHANGED <<slots, primary, replica, last, cf>>

NextSerial ==
    \/ \E m \in SerialDescriptors : Invoke("FillSlot", m, IdleWriter.masters)
    \/ \E masters \in MasterMaps : Invoke("SwitchMasters", IdleWriter.m, masters)
    \/ Invoke("Close", IdleWriter.m, IdleWriter.masters)
    \/ \E f \in wf : LockStep(f)
    \/ \E f \in wf : LoopStep(f)
    \/ \E f \in wf : BlockStep(f)
    \/ \E f \in wf : ReleaseStep(f)
    \/ \E f \in wf : RetainBackendStep(f)
    \/ \E f \in wf : RetainRestStep(f)
    \/ \E f \in wf : UnblockStep(f)

SpecSerial == Init /\ [][NextSerial]_vars

\* ================================================================== claims
\* the last call was a FillSlot that returned nil
FillSlotApplied == last.op = "FillSlot" /\ last.err = ErrNone

\* groups without its empty groups, order kept
RECURSIVE WithoutEmpty(_)
WithoutEmpty(groups) ==
    IF groups = << >> THEN << >>
    ELSE IF Head(groups) = << >> THEN WithoutEmpty(Tail(groups))
    ELSE << Head(groups) >> \o WithoutEmpty(Tail(groups))

\* C1, as stated: after FillSlot(m) on an open router, GetSlot(m.Id) returns
\* exactly the backend and migrate addresses and group ids and the replica
\* groups of m, and the slot is not switched.
C1_GetSlotEqualsDescriptor ==
    FillSlotApplied =>
        LET m == last.m
            g == GetSlot(m.Id)
        IN  /\ g.BackendAddr = m.BackendAddr
            /\ g.BackendAddrGroupId = m.BackendAddrGroupId
            /\ g.MigrateFrom = m.MigrateFrom
            /\ g.MigrateFromGroupId = m.MigrateFromGroupId
            /\ g.ReplicaGroups = m.ReplicaGroups
            /\ ~slots[m.Id].switched

\* C1, amended: after FillSlot(m) on an open router, GetSlot(m.Id) returns the
\* backend and migrate addresses of m; each group id is that of m when its
\* address is non-empty and 0 otherwise; the replica groups are those of m
\* with the empty groups dropped; and the slot is not switched.
C1_GetSlotAfterFillSlot ==
    FillSlotApplied =>
        LET m == last.m
            g == GetSlot(m.Id)
        IN  /\ g.Id = m.Id
            /\ g.BackendAddr = m.BackendAddr
            /\ g.BackendAddrGroupId =
                   (IF m.BackendAddr # NoAddr THEN m.BackendAddrGroupId ELSE 0)
            /\ g.MigrateFrom = m.MigrateFrom
            /\ g.MigrateFromGroupId =
                   (IF m.MigrateFrom # NoAddr THEN m.MigrateFromGroupId ELSE 0)
            /\ g.ReplicaGroups = WithoutEmpty(m.ReplicaGroups)
            /\ ~slots[m.Id].switched

\* C1, witness: a FillSlot of a descriptor with a backend and with replica
\* groups, one of them empty, has been applied
C1_Witness ==
    /\ FillSlotApplied
    /\ last.m.BackendAddr # NoAddr
    /\ \E i \in 1 .. Len(last.m.ReplicaGroups) : last.m.ReplicaGroups[i] = << >>
    /\ \E i \in 1 .. Len(last.m.ReplicaGroups) : last.m.ReplicaGroups[i] # << >>

\* the writer is between the return of blockAndWait and unblock on slot k
MidFill(k) == \E f \in wf : f.pc \in {"retain", "retainRest", "unblock"} /\ f.m.Id = k

\* C2: a request admitted to slot k was admitted outside the window between
\* blockAndWait and unblock, and the backend and migration source it was
\* routed with are the complete configuration of the slot: never a cleared
\* backend, never one of them old and the other new.
C2_NoMixedConfiguration ==
    \A c \in Clients :
        cf[c].pc = "push" =>
            /\ ~MidFill(cf[c].slot)
            /\ cf[c].bc # NoAddr
            /\ cf[c].bc = slots[cf[c].slot].backend.bc
            /\ cf[c].mg = slots[cf[c].slot].migrate.bc

\* C2, witness: a request is admitted on a slot whose re-fill with another
\* backend has closed the gate and waits for it
C2_Witness ==
    \E c \in Clients, f \in wf :
        /\ cf[c].pc = "push"
        /\ f.pc = "release"
        /\ f.m.Id = cf[c].slot
        /\ f.m.BackendAddr # cf[c].bc
        /\ slots[cf[c].slot].hold

\* C3: a client about to PushBack, from forward or from dispatchAddr, never
\* holds a connection whose last reference has been released.
C3_NoPushOnReleasedConn ==
    \A c \in Clients : cf[c].pc \in {"push", "addr"} => ~cf[c].stale

\* C3, witness: a request is admitted and holds the only reference-counted
\* connection to its backend while a reconfiguration that will release that
\* connection waits for it
C3_Witness ==
    \E c \in Clients, f \in wf :
        /\ cf[c].pc = "push"
        /\ f.pc = "release"
        /\ f.m.Id = cf[c].slot
        /\ primary[cf[c].bc] = 1
        /\ f.m.BackendAddr # cf[c].bc
        /\ f.m.MigrateFrom # cf[c].bc

\* the number of slots i .. MaxSlotNum-1 that hold address a as backend or
\* as migration source, counting a slot twice when it holds it as both
RECURSIVE PrimaryHolders(_, _)
PrimaryHolders(i, a) ==
    IF i >= MaxSlotNum THEN 0
    ELSE (IF slots[i].backend.bc = a THEN 1 ELSE 0)
         + (IF slots[i].migrate.bc = a THEN 1 ELSE 0)
         + PrimaryHolders(i + 1, a)

\* the number of replica-group entries equal to a in slots i .. MaxSlotNum-1
RECURSIVE ReplicaHolders(_, _)
ReplicaHolders(i, a) ==
    IF i >= MaxSlotNum THEN 0
    ELSE Count(Flatten(slots[i].replicaGroups), a) + ReplicaHolders(i + 1, a)

\* C4: between calls, the reference count of every address in the primary
\* pool is the number of slots holding it as backend plus the number holding
\* it as migration source, that in the replica pool is the number of
\* replica-group entries naming it, and a pool has a live connection for an
\* address exactly while some slot holds it.
C4_RefCountsMatchHolders ==
    \A a \in Addrs :
        /\ primary[a] = PrimaryHolders(0, a)
        /\ replica[a] = ReplicaHolders(0, a)
        /\ (Get(primary, a) = NoAddr) = (PrimaryHolders(0, a) = 0)
        /\ (Get(replica, a) = NoAddr) = (ReplicaHolders(0, a) = 0)

\* C4, witness: a slot was emptied by FillSlot while another slot goes on
\* holding the address: the shared connection stays referenced
C4_Witness ==
    /\ FillSlotApplied
    /\ last.m = EmptyDesc(last.m.Id)
    /\ \E a \in Addrs : primary[a] = 1 /\ replica[a] = 2
    /\ \E i \in SlotIds : i # last.m.Id /\ slots[i].backend.bc # NoAddr

\* C5: a second SwitchMasters with the mapping of the one that just returned
\* re-applies no slot, leaves slots and pools as they are, and HasSwitched
\* answers the same.
C5_SwitchMastersIdempotent ==
    last.op = "SwitchMasters" =>
        /\ SwitchMastersErr(closed) = last.err
        /\ (last.err = ErrNone => SwitchedFrom(RS, 0, last.masters) = {})
        /\ SwitchMastersRS(RS, closed, last.masters) = RS
        /\ HasSwitchedIn(SwitchMastersRS(RS, closed, last.masters).slots) = HasSwitched

\* C5, witness: a SwitchMasters has re-applied a slot
C5_Witness ==
    /\ last.op = "SwitchMasters"
    /\ last.touched # {}
    /\ HasSwitched

\* C6: when Close has returned the router is closed, every slot has no
\* backend, no migration source, no replica groups and group ids 0, and both
\* pools hold no reference.
C6_CloseEmptiesEverySlot ==
    last.op = "Close" =>
        /\ closed
        /\ \A i \in SlotIds :
               /\ slots[i].backend = [bc |-> NoAddr, id |-> 0]
               /\ slots[i].migrate = [bc |-> NoAddr, id |-> 0]
               /\ slots[i].replicaGroups = << >>
               /\ GetSlot(i) = EmptyDesc(i)
        /\ \A a \in Addrs : primary[a] = 0 /\ replica[a] = 0

\* C6, witness: Close has returned on a router all of whose slots held
\* connections or a closed gate
C6_Witness ==
    /\ last.op = "Close"
    /\ last.touched = SlotIds

AimedSlot ==
    IF last.op = "dispatch" THEN Hash(Head(last.req)) % MaxSlotNum
    ELSE IF last.op = "dispatchSlot" /\ last.id \in SlotIds THEN last.id
    ELSE -1

\* C8: a dispatch or dispatchSlot aimed at a slot without a backend fails
\* with the slot-not-ready error and pushes the request onto no connection,
\* also when the slot has a migration source.
C8_NoBackendNotReady ==
    (AimedSlot # -1 /\ slots[AimedSlot].backend.bc = NoAddr) =>
        /\ last.err = ErrSlotIsNotReady
        /\ last.pushed = << >>

\* C8, witness: a request was dispatched to a slot that has a migration
\* source and no backend
C8_Witness ==
    /\ last.op = "dispatch"
    /\ slots[AimedSlot].backend.bc = NoAddr
    /\ slots[AimedSlot].migrate.bc # NoAddr
    /\ ~slots[AimedSlot].hold

\* C9: a FillSlot or SwitchMasters that returns an error leaves the slots,
\* their gates, both pools and the closed flag as they were.
C9_FailedCallChangesNothing ==
    [][(last'.op \in {"FillSlot", "SwitchMasters"} /\ last'.err # ErrNone)
           => UNCHANGED <<slots, primary, replica, closed>>]_vars

\* C9, witness: a FillSlot with an invalid slot id has failed on an open
\* router whose slots hold connections
C9_Witness ==
    /\ last.op = "FillSlot"
    /\ last.err = ErrInvalidSlotId
    /\ \E i \in SlotIds : slots[i].backend.bc # NoAddr /\ slots[i].replicaGroups # << >>

ErrCrossShardRequest == "cross shard request"

\* the keys of a request all hash to one slot
SameSlot(multi) ==
    \A i, j \in 1 .. Len(multi) : Hash(multi[i]) % MaxSlotNum = Hash(multi[j]) % MaxSlotNum

C11_LockedSlotStaysGated ==
    [][/\ (last'.op = "FillSlot" /\ last'.err = ErrNone)
            => slots'[last'.m.Id].hold = last'.m.Locked
       /\ \A id \in SlotIds :
            /\ (/\ last'.op \in {"dispatch", "dispatchSlot"}
                /\ (IF last'.op = "dispatch" THEN dispatchId(last'.req) ELSE last'.id) = id
                /\ slots[id].hold)
                 => /\ last'.err = ErrSlotIsNotReady
                    /\ last'.pushed = << >>
                    /\ UNCHANGED <<slots, primary, replica>>
            /\ (slots[id].hold /\ ~slots'[id].hold)
                 => \/ /\ last'.op = "FillSlot"
                       /\ last'.err = ErrNone
                       /\ last'.m.Id = id
                       /\ ~last'.m.Locked
                    \/ last'.op = "Close"]_vars

\* a dispatch is refused by a slot that has a backend and a closed gate
C11_Witness ==
    /\ last.op = "dispatch"
    /\ slots[AimedSlot].hold
    /\ slots[AimedSlot].backend.bc # NoAddr
    /\ last.err = ErrSlotIsNotReady
    /\ last.pushed = << >>

\* the masters map names, for the backend or for the migrate source of the
\* slot, a non-empty address that differs from the one the slot has
NeedsSwitch(slot, masters) ==
    \/ masters[slot.backend.id] \notin {NoAddr, slot.backend.bc}
    \/ masters[slot.migrate.id] \notin {NoAddr, slot.migrate.bc}

\* the address a re-apply leaves: the mapped one, or the old one when the
\* map names none
Switched(masters, conn) ==
    [bc |-> IF masters[conn.id] # NoAddr THEN masters[conn.id] ELSE conn.bc, id |-> conn.id]

\* C12: a SwitchMasters that is not refused re-applies exactly the slots
\* for which the map names a different non-empty address for the backend
\* group or for the migrate group; a re-applied slot ends with the mapped
\* addresses and its group ids unchanged; every other slot keeps its backend,
\* migrate source, replica groups, switched flag and gate.
C12_SwitchMastersFrame ==
    [][(last'.op = "SwitchMasters" /\ last'.err = ErrNone) =>
          \A id \in SlotIds :
             /\ (id \in last'.touched) = NeedsSwitch(slots[id], last'.masters)
             /\ IF NeedsSwitch(slots[id], last'.masters)
                THEN /\ slots'[id].backend = Switched(last'.masters, slots[id].backend)
                     /\ slots'[id].migrate = Switched(last'.masters, slots[id].migrate)
                ELSE slots'[id] = slots[id]]_vars

\* a SwitchMasters re-applied one slot, which ends on the mapped backend, and
\* left alone another slot that holds a connection
C12_Witness ==
    /\ last.op = "SwitchMasters"
    /\ \E id \in last.touched, other \in SlotIds \ last.touched :
          /\ slots[id].backend.id # 0
          /\ slots[id].backend.bc = last.masters[slots[id].backend.id]
          /\ slots[other].backend.bc # NoAddr

\* C13: every step leaves the switched flag of a slot TRUE when it is a
\* SwitchMasters that re-applies the slot, FALSE when it is a FillSlot of the
\* slot that is not refused or a Close, and as it was otherwise; so the flag
\* tells whether the slot was last reconfigured by SwitchMasters, and
\* HasSwitched() is TRUE exactly when some slot was.
C13_SwitchedIffLastReapplied ==
    [][/\ \A id \in SlotIds :
            slots'[id].switched =
               IF last'.op = "SwitchMasters" /\ last'.err = ErrNone /\ id \in last'.touched
               THEN TRUE
               ELSE IF \/ last'.op = "FillSlot" /\ last'.err = ErrNone /\ last'.m.Id = id
                       \/ last'.op = "Close"
               THEN FALSE
               ELSE slots[id].switched
       /\ HasSwitched' = (\E id \in SlotIds : slots'[id].switched)]_vars

\* a FillSlot has reset one slot while another slot is still switched
C13_Witness ==
    /\ last.op = "FillSlot"
    /\ last.err = ErrNone
    /\ ~slots[last.m.Id].switched
    /\ slots[last.m.Id].backend.bc # NoAddr
    /\ \A id \in SlotIds \ {last.m.Id} : slots[id].switched

\* a slot that has a migrate source has a backend
MigrateHasBackend(slot) == slot.migrate.bc # NoAddr => slot.backend.bc # NoAddr

\* C14 as stated: in every state reached by FillSlot with any descriptor,
\* SwitchMasters and Close, a slot whose migrate connection is set has its
\* backend connection set.
C14_MigrateImpliesBackend == \A id \in SlotIds : MigrateHasBackend(slots[id])

\* C14, amended: SwitchMasters, Close and every FillSlot whose descriptor
\* names a backend whenever it names a migrate source keep the table one
\* in which a slot with a migrate source has a backend.
C14_WellFormedDescriptorsKeepIt ==
    [][(/\ \A id \in SlotIds : MigrateHasBackend(slots[id])
        /\ last'.op = "FillSlot" => (last'.m.MigrateFrom # NoAddr => last'.m.BackendAddr # NoAddr))
          => \A id \in SlotIds : MigrateHasBackend(slots'[id])]_vars

\* a SwitchMasters has re-applied a migrating slot and every slot with a
\* migrate source has a backend
C14_Witness ==
    /\ last.op = "SwitchMasters"
    /\ \E id \in last.touched : slots[id].migrate.bc # NoAddr /\ slots[id].migrate.id # 0
    /\ \A id \in SlotIds : MigrateHasBackend(slots[id])

\* C15: under fair scheduling every FillSlot, SwitchMasters and Close that
\* has taken the write lock returns, whatever dispatch, dispatchSlot,
\* dispatchAddr and accessor steps interleave, also when it fills a slot whose
\* gate an earlier FillSlot left closed.
C15_ReconfigurationReturns == (wf # {}) ~> (wf = {})

\* a reconfiguration is about to call blockAndWait on a slot whose gate an
\* earlier FillSlot left closed, while a request is in flight on another slot
C15_Witness ==
    \E f \in wf, c \in Clients :
        /\ f.pc = "block"
        /\ slots[f.m.Id].hold
        /\ cf[c].pc = "push"
        /\ cf[c].slot # f.m.Id

\* a fillSlot of slot id is in progress under the write lock, from the call
\* of blockAndWait to the return
Filling(id) ==
    /\ mu.w
    /\ \E f \in wf : /\ f.pc \in {"block", "release", "retain", "retainRest", "unblock"}
                     /\ f.m.Id = id

\* C16: while a fillSlot of slot a is in progress, with the write lock
\* held and a being blocked, every other slot b that has a backend and an
\* open gate keeps them through the step, and a request for b is admitted
\* for the push on b's backend without waiting for the lock or for a.
C16_OtherSlotNotBlocked ==
    [][\A a \in SlotIds : \A b \in SlotIds \ {a} :
          (Filling(a) /\ forwardErr(slots[b]) = ErrNone) =>
             /\ forwardErr(slots'[b]) = ErrNone
             /\ \A c \in Clients :
                   cf[c].pc = "idle" =>
                      ENABLED (/\ DispatchSlotAdmit(c, b)
                               /\ cf'[c].pc = "push"
                               /\ cf'[c].bc = slots[b].backend.bc)]_vars

\* a request for one slot is admitted and not yet pushed while the fillSlot of
\* another slot has released the old connections and not yet retained the new
C16_Witness ==
    \E c \in Clients, a \in SlotIds :
        /\ Filling(a)
        /\ slots[a].hold
        /\ slots[a].backend.bc = NoAddr
        /\ \E f \in wf : f.pc = "retain" /\ f.m.BackendAddr # NoAddr
        /\ cf[c].pc = "push"
        /\ cf[c].slot # a
        /\ ~cf[c].stale

\* C17 as stated: GetSlots, GetSlot, GetGroupIds and HasSwitched each
\* hold only the read side of the router lock while they read the slot
\* table, so that they can run in parallel with each other.
C17_AccessorsHoldReadSide ==
    \A c \in Clients : cf[c].pc \in Accessors => (~mu.w /\ mu.r > 0)

\* C18: of the overlapping FillSlot, SwitchMasters and Close calls at most
\* one is past Router.mu.Lock at a time, so their fillSlot steps never
\* interleave, and a call returns leaving the state it would leave if it
\* ran alone from the state it found when it was granted the lock, which is
\* the state the call before it left: the calls take effect one after the
\* other in the order of the lock.
C18_ReconfigurationsSerialized ==
    [][/\ Cardinality(Inside') <= 1
       /\ (Inside' # {} => mu'.w)
       /\ \A f \in Inside : wf' = wf \ {f} => Settled(RS') = f.post]_vars

\* a SwitchMasters is inside and has re-applied a slot while another
\* SwitchMasters, with another map, waits for the lock
C18_Witness ==
    \E f \in Inside, g \in wf :
        /\ f.op = "SwitchMasters"
        /\ f.i > 0
        /\ \E id \in SlotIds : slots[id].switched /\ id < f.i
        /\ g.pc = "lock"
        /\ g.op = "SwitchMasters"
        /\ g.masters # f.masters

\* the replica connections that the slots of set ids hold on address a
ReplicaRefs(ss, ids, a) ==
    LET RECURSIVE Sum(_)
        Sum(S) == IF S = {} THEN 0
                  ELSE LET id == CHOOSE x \in S : TRUE
                       IN Count(Flatten(ss[id].replicaGroups), a) + Sum(S \ {id})
    IN Sum(ids)

\* C19: a SwitchMasters that is not refused leaves every slot it re-applies
\* without replica groups and gives back the references those slots held in
\* the replica pool; the slots it does not re-apply keep their replica groups.
C19_ReapplyDropsReplicas ==
    [][(last'.op = "SwitchMasters" /\ last'.err = ErrNone) =>
          /\ \A id \in SlotIds :
                slots'[id].replicaGroups =
                   IF id \in last'.touched THEN << >> ELSE slots[id].replicaGroups
          /\ \A a \in Addrs :
                replica'[a] = replica[a] - ReplicaRefs(slots, last'.touched, a)]_vars

\* a SwitchMasters has moved the backend of a locked slot without migrate
\* source, which only a descriptor with replica groups sets up, and no
\* replica connection is left
C19_Witness ==
    /\ last.op = "SwitchMasters"
    /\ \E id \in last.touched :
          /\ slots[id].hold
          /\ slots[id].switched
          /\ slots[id].backend.bc = "b"
          /\ last.masters[slots[id].backend.id] = "b"
          /\ slots[id].migrate.bc = NoAddr
          /\ slots[id].replicaGroups = << >>
    /\ \A a \in Addrs : replica[a] = 0

\* the step leaves every slot without backend without backend, and every
\* slot without migrate source without migrate source
KeepsSlotKinds ==
    \A id \in SlotIds :
       /\ (slots[id].backend.bc = NoAddr) = (slots'[id].backend.bc = NoAddr)
       /\ (slots[id].migrate.bc = NoAddr) = (slots'[id].migrate.bc = NoAddr)

\* C20 as stated: SwitchMasters, for every map, also one with an entry for
\* group 0, leaves a slot without backend without backend and a slot
\* without migrate source without migrate source.
C20_SwitchMastersKeepsSlotKind ==
    [][last'.op = "SwitchMasters" => KeepsSlotKinds]_vars

\* C20, amended: SwitchMasters with a map that has no entry for group 0
\* leaves a slot without backend without backend and a slot without migrate
\* source without migrate source; with a map that has an entry for group 0,
\* a SwitchMasters that is not refused leaves every slot with a backend and
\* with a migrate source, the missing ones being the address of group 0
\* under group id 0.
C20_KeepsSlotKindUnlessGroupZero ==
    [][last'.op = "SwitchMasters" =>
          IF last'.masters[0] = NoAddr \/ last'.err # ErrNone
          THEN KeepsSlotKinds
          ELSE \A id \in SlotIds :
                  /\ slots'[id].backend =
                        IF slots[id].backend.bc = NoAddr
                        THEN [bc |-> last'.masters[0], id |-> 0]
                        ELSE Switched(last'.masters, slots[id].backend)
                  /\ slots'[id].migrate =
                        IF slots[id].migrate.bc = NoAddr
                        THEN [bc |-> last'.masters[0], id |-> 0]
                        ELSE Switched(last'.masters, slots[id].migrate)]_vars

\* a SwitchMasters with a map without entry for group 0 has re-applied a
\* slot and left another slot empty
C20_Witness ==
    /\ last.op = "SwitchMasters"
    /\ last.masters[0] = NoAddr
    /\ last.touched # {}
    /\ \E id \in SlotIds \ last.touched :
          /\ slots[id].backend.bc = NoAddr
          /\ slots[id].migrate.bc = NoAddr
          /\ ~slots[id].switched

====
